---- MODULE Spec2Model ----
(***************************************************************************)
(* Data validation stage of the Network Security pipeline:                 *)
(* networksecurity/components/data_validation.py, class DataValidation.    *)
(*                                                                         *)
(* One run of initiate_data_validation is a walk of pc over the statements *)
(* of the method; detect_dataset_drift can also be entered directly, with  *)
(* a threshold of the caller's choice.  p-values and thresholds are floats *)
(* in hundredths (5 stands for 0.05), NaN included.                        *)
(***************************************************************************)
EXTENDS Integers, Sequences, FiniteSets, TLC

\* ------------------------------------------------------------------ bounds
NumNames == 3   \* how many distinct column names exist
MaxCols == 3    \* longest column list of a dataset
MaxSchemaCols == 2    \* longest schema['columns']

\* ------------------------------------------------------------- input sets
AllNames == <<"a", "b", "c", "d", "e", "f">>

ColumnNames == {AllNames[i] : i \in 1..NumNames}

Range(s) == {s[i] : i \in 1..Len(s)}

Prefix(k) == [i \in 1..k |-> AllNames[i]]

IsSorted(s) == \A i, j \in 1..Len(s) : i < j => (\E m, n \in 1..NumNames : m < n /\ AllNames[m] = s[i] /\ AllNames[n] = s[j])

Reverse(s) == [i \in 1..Len(s) |-> s[Len(s) + 1 - i]]

\* column lists without duplicates (pandas mangles duplicate headers), in
\* the order of AllNames or in the opposite order
ColumnLists == {s \in UNION {[1..n -> ColumnNames] : n \in 0..MaxCols} : IsSorted(s) \/ IsSorted(Reverse(s))}

\* floats: a number of hundredths, or NaN
Float(v) == [nan |-> FALSE, v |-> v]

NaN == [nan |-> TRUE, v |-> 0]

\* Python's >= and < on floats: every comparison with NaN is False
float_ge(x, y) == ~x.nan /\ ~y.nan /\ x.v >= y.v

float_lt(x, y) == ~x.nan /\ ~y.nan /\ x.v < y.v

\* threshold: float = 0.05
DefaultThreshold == 5

Thresholds == {Float(DefaultThreshold), Float(DefaultThreshold - 1)}

\* what ks_2samp(d1, d2).pvalue can be: below, at and above the thresholds,
\* and NaN (a sample holding a missing value, nan_policy='propagate')
PValues == {Float(DefaultThreshold - 1), Float(DefaultThreshold), Float(DefaultThreshold + 1), NaN}

None == "None"

\* ------------------------------------------------------------- the paths
\* a path is <<directory, basename>>
dirname(path) == path[1]

basename(path) == path[2]

join(dir, name) == <<dir, name>>

TrainedFilePaths == {join("ingested", "train.csv"), join("ingested", "export_a.csv")}

TestFilePaths == {join("ingested", "test.csv"), join("ingested", "export_b.csv")}

\* DataValidationConfig
valid_data_dir == "validated"

invalid_data_dir == "invalid"

valid_train_file_path == join(valid_data_dir, "train.csv")

valid_test_file_path == join(valid_data_dir, "test.csv")

invalid_train_file_path == join(invalid_data_dir, "train.csv")

invalid_test_file_path == join(invalid_data_dir, "test.csv")

drift_report_file_path == join("drift_report", "report.yaml")

\* the schema file: 'columns' and 'numerical_columns' (a sub-list of the
\* columns), or a file without the 'numerical_columns' key
NumericalLists(k) == {n \in ColumnLists : IsSorted(n) /\ Range(n) \subseteq Range(Prefix(k))}

Schemas == {[columns |-> Prefix(k), has_numerical |-> TRUE, numerical_columns |-> Prefix(k)] : k \in 1..MaxSchemaCols} \cup {[columns |-> Prefix(MaxSchemaCols), has_numerical |-> TRUE, numerical_columns |-> n] : n \in NumericalLists(MaxSchemaCols)} \cup {[columns |-> Prefix(MaxSchemaCols), has_numerical |-> FALSE, numerical_columns |-> <<>>]}

NoFrame == [columns |-> <<>>, source |-> None]

DataFrame(cols, path) == [columns |-> cols, source |-> path]

VARIABLES
    entry,               \* which method the caller invokes
    schema,              \* self._schema_config
    trained_file_path,   \* self.data_ingestion_artifact.trained_file_path
    test_file_path,      \* self.data_ingestion_artifact.test_file_path
    pc,                  \* the statement the run is at
    train_dataframe,     \* train_dataframe / base_df
    test_dataframe,      \* test_dataframe / current_df
    status,              \* status (the last check's return value)
    validation_status,   \* validation_status
    threshold,           \* detect_dataset_drift's threshold
    column_index,        \* position of the loop over base_df.columns
    drift_status,        \* detect_dataset_drift's drift_status
    report,              \* detect_dataset_drift's report
    drift_returned,      \* <<what detect_dataset_drift returned>>, or <<>>
    drift_report_file,   \* <<the report written to drift_report_file_path>>, or <<>>
    dirs,                \* directories created by the run
    files,               \* files written by the run: path -> content
    result,              \* <<the returned DataValidationArtifact>>, or <<>>
    cause,               \* the first exception raised inside the run, or None
    exception,           \* the exception that reached the caller, or None
    events               \* the steps executed, in order

vars == <<entry, schema, trained_file_path, test_file_path, pc, train_dataframe, test_dataframe, status, validation_status, threshold, column_index, drift_status, report, drift_returned, drift_report_file, dirs, files, result, cause, exception, events>>

inputs == <<entry, schema, trained_file_path, test_file_path>>

drift_vars == <<threshold, column_index, drift_status, report, drift_returned>>

fs_vars == <<drift_report_file, dirs, files>>

EmptyReport == [c \in {} |-> NaN]

Init ==
    /\ entry \in {"initiate_data_validation", "detect_dataset_drift"}
    /\ schema \in Schemas
    /\ trained_file_path \in TrainedFilePaths
    /\ test_file_path \in TestFilePaths
    \* detect_dataset_drift reads neither the schema nor the artifact paths:
    \* one value of each is kept for a direct call
    /\ entry = "detect_dataset_drift" =>
           /\ schema = [columns |-> Prefix(1), has_numerical |-> TRUE, numerical_columns |-> Prefix(1)]
           /\ trained_file_path = join("ingested", "train.csv")
           /\ test_file_path = join("ingested", "test.csv")
    /\ pc = IF entry = "initiate_data_validation" THEN "read_train" ELSE "call_detect"
    /\ train_dataframe = NoFrame
    /\ test_dataframe = NoFrame
    /\ status = TRUE
    /\ validation_status = TRUE
    /\ threshold = Float(DefaultThreshold)
    /\ column_index = 1
    /\ drift_status = FALSE
    /\ report = EmptyReport
    /\ drift_returned = <<>>
    /\ drift_report_file = <<>>
    /\ dirs = {}
    /\ files = [p \in {} |-> NoFrame]
    /\ result = <<>>
    /\ cause = None
    /\ exception = None
    /\ events = <<>>

\* ------------------------------------------------------------ exceptions
\* the handler re-raising what it caught
reraise_unwrapped(e) == e

\* except Exception as e: raise NetworkSecurityException(e, sys)
NetworkSecurityException(e) == "NetworkSecurityException"

\* an exception inside the try block: the run ends, nothing is returned
Raise(e, step) ==
    /\ pc' = "raised"
    /\ cause' = e
    /\ exception' = NetworkSecurityException(e)
    /\ events' = Append(events, step)

Step(step, next) ==
    /\ pc' = next
    /\ events' = Append(events, step)
    /\ UNCHANGED <<cause, exception>>

\* ----------------------------------------------------- structural checks
\* a name-level comparison in place of the count
validate_column_names(dataframe) == Range(dataframe.columns) = Range(schema.columns)

\* len(dataframe.columns) == len(self._schema_config['columns'])
validate_number_of_columns(dataframe) == Len(dataframe.columns) = Len(schema.columns)

\* the list built by the loop over numerical_columns
missing_numerical_columns(dataframe) == SelectSeq(schema.numerical_columns, LAMBDA column : column \notin Range(dataframe.columns))

\* satisfied by one numerical column being present
is_any_numerical_column_exist(dataframe) == IF Len(missing_numerical_columns(dataframe)) < Len(schema.numerical_columns) \/ Len(schema.numerical_columns) = 0 THEN TRUE ELSE FALSE

is_numerical_column_exist(dataframe) == IF Len(missing_numerical_columns(dataframe)) > 0 THEN FALSE ELSE TRUE

\* validation_status = status
overwrite_status(vstatus, st) == st

\* if not status: validation_status = False
Accumulate(vstatus, st) == IF ~st THEN FALSE ELSE vstatus

\* ------------------------------------------------------------- the steps
\* train_dataframe = DataValidation.read_data(train_file_path)
ReadTrain ==
    /\ pc = "read_train"
    /\ \/ \E cols \in ColumnLists :
              /\ train_dataframe' = DataFrame(cols, trained_file_path)
              /\ Step("read_train", "read_test")
       \/ /\ Raise("ReadError", "read_train")
          /\ UNCHANGED train_dataframe
    /\ UNCHANGED <<inputs, test_dataframe, status, validation_status, drift_vars, fs_vars, result>>

\* test_dataframe = DataValidation.read_data(test_file_path)
ReadTest ==
    /\ pc = "read_test"
    /\ \/ \E cols \in ColumnLists :
              /\ test_dataframe' = DataFrame(cols, test_file_path)
              /\ Step("read_test", "count_train")
       \/ /\ Raise("ReadError", "read_test")
          /\ UNCHANGED test_dataframe
    /\ UNCHANGED <<inputs, train_dataframe, status, validation_status, drift_vars, fs_vars, result>>

\* a failed first check skipping the three that follow
CountTrainShortCircuit ==
    /\ pc = "count_train"
    /\ status' = validate_number_of_columns(train_dataframe)
    /\ validation_status' = Accumulate(TRUE, status')
    /\ Step("count_train", IF status' THEN "count_test" ELSE "gate")
    /\ UNCHANGED <<inputs, train_dataframe, test_dataframe, drift_vars, fs_vars, result>>

\* validation_status = True; status = validate_number_of_columns(train)
CountTrain ==
    /\ pc = "count_train"
    /\ status' = validate_number_of_columns(train_dataframe)
    /\ validation_status' = Accumulate(TRUE, status')
    /\ Step("count_train", "count_test")
    /\ UNCHANGED <<inputs, train_dataframe, test_dataframe, drift_vars, fs_vars, result>>

CountTest ==
    /\ pc = "count_test"
    /\ status' = validate_number_of_columns(test_dataframe)
    /\ validation_status' = Accumulate(validation_status, status')
    /\ Step("count_test", "num_train")
    /\ UNCHANGED <<inputs, train_dataframe, test_dataframe, drift_vars, fs_vars, result>>

\* self._schema_config['numerical_columns'] raises KeyError without the key
NumTrain ==
    /\ pc = "num_train"
    /\ IF schema.has_numerical
       THEN /\ status' = is_numerical_column_exist(train_dataframe)
            /\ validation_status' = Accumulate(validation_status, status')
            /\ Step("num_train", "num_test")
       ELSE /\ Raise("KeyError", "num_train")
            /\ UNCHANGED <<status, validation_status>>
    /\ UNCHANGED <<inputs, train_dataframe, test_dataframe, drift_vars, fs_vars, result>>

NumTest ==
    /\ pc = "num_test"
    /\ IF schema.has_numerical
       THEN /\ status' = is_numerical_column_exist(test_dataframe)
            /\ validation_status' = Accumulate(validation_status, status')
            /\ Step("num_test", "gate")
       ELSE /\ Raise("KeyError", "num_test")
            /\ UNCHANGED <<status, validation_status>>
    /\ UNCHANGED <<inputs, train_dataframe, test_dataframe, drift_vars, fs_vars, result>>

\* --------------------------------------------------- detect_dataset_drift
\* if is_same_dist.pvalue >= threshold: is_found = False  else: is_found = True
is_found(pvalue, thr) == IF float_ge(pvalue, thr) THEN FALSE ELSE TRUE

\* drift_status = is_found
last_column_status(dstatus, found) == found

\* drift_status = True in the else branch, untouched otherwise
next_drift_status(dstatus, found) == IF found THEN TRUE ELSE dstatus

\* report = {column: {...}}
report_replace(rep, column, pvalue, found) == (column :> [p_value |-> pvalue, drift_status |-> found])

\* report.update({column: {"p_value": ..., "drift_status": is_found}})
report_update(rep, column, pvalue, found) == (column :> [p_value |-> pvalue, drift_status |-> found]) @@ rep

\* a caller other than initiate_data_validation, with its own datasets and
\* threshold: drift_status = False; report = {}
CallDetect ==
    /\ pc = "call_detect"
    /\ \E base \in ColumnLists, current \in ColumnLists, thr \in Thresholds :
           /\ train_dataframe' = DataFrame(base, None)
           /\ test_dataframe' = DataFrame(current, None)
           /\ threshold' = thr
    /\ column_index' = 1
    /\ drift_status' = FALSE
    /\ report' = EmptyReport
    /\ Step("call_detect", "ks")
    /\ UNCHANGED <<inputs, status, validation_status, drift_returned, fs_vars, result>>

\* drift detection run whatever validation_status is
UngatedDrift ==
    /\ pc = "gate"
    /\ threshold' = Float(DefaultThreshold)
    /\ column_index' = 1
    /\ drift_status' = FALSE
    /\ report' = EmptyReport
    /\ Step("gate", "ks")
    /\ UNCHANGED <<inputs, train_dataframe, test_dataframe, status, validation_status, drift_returned, fs_vars, result>>

\* if validation_status: drift_status = self.detect_dataset_drift(train, test)
Gate ==
    /\ pc = "gate"
    /\ IF validation_status
       THEN /\ threshold' = Float(DefaultThreshold)
            /\ column_index' = 1
            /\ drift_status' = FALSE
            /\ report' = EmptyReport
            /\ Step("gate", "ks")
       ELSE /\ Step("gate", "makedirs")
            /\ UNCHANGED <<threshold, column_index, drift_status, report>>
    /\ UNCHANGED <<inputs, train_dataframe, test_dataframe, status, validation_status, drift_returned, fs_vars, result>>

\* the loop skipping a base column that the current dataset lacks
KsColumnSkipsMissing ==
    /\ pc = "ks"
    /\ column_index <= Len(train_dataframe.columns)
    /\ LET column == train_dataframe.columns[column_index] IN
       IF column \notin Range(test_dataframe.columns)
       THEN /\ column_index' = column_index + 1
            /\ Step("ks", "ks")
            /\ UNCHANGED <<drift_status, report>>
       ELSE \/ \E pvalue \in PValues :
                   /\ report' = report_update(report, column, pvalue, is_found(pvalue, threshold))
                   /\ drift_status' = next_drift_status(drift_status, is_found(pvalue, threshold))
                   /\ column_index' = column_index + 1
                   /\ Step("ks", "ks")
            \/ /\ Raise("ValueError", "ks")
               /\ UNCHANGED <<column_index, drift_status, report>>
    /\ UNCHANGED <<inputs, train_dataframe, test_dataframe, status, validation_status, threshold, drift_returned, fs_vars, result>>

\* one pass of: for column in base_df.columns
KsColumn ==
    /\ pc = "ks"
    /\ column_index <= Len(train_dataframe.columns)
    /\ LET column == train_dataframe.columns[column_index] IN
       IF column \notin Range(test_dataframe.columns)
       THEN \* current_df[column] raises KeyError
            /\ Raise("KeyError", "ks")
            /\ UNCHANGED <<column_index, drift_status, report>>
       ELSE \/ \E pvalue \in PValues :
                   /\ report' = report_update(report, column, pvalue, is_found(pvalue, threshold))
                   /\ drift_status' = next_drift_status(drift_status, is_found(pvalue, threshold))
                   /\ column_index' = column_index + 1
                   /\ Step("ks", "ks")
            \/ \* ks_2samp raises (an empty sample)
               /\ Raise("ValueError", "ks")
               /\ UNCHANGED <<column_index, drift_status, report>>
    /\ UNCHANGED <<inputs, train_dataframe, test_dataframe, status, validation_status, threshold, drift_returned, fs_vars, result>>

\* os.makedirs(os.path.dirname(drift_report_file_path), exist_ok=True)
ReportMakedirs ==
    /\ pc = "ks"
    /\ column_index > Len(train_dataframe.columns)
    /\ \/ /\ dirs' = dirs \cup {dirname(drift_report_file_path)}
          /\ Step("report_makedirs", "report_write")
       \/ /\ Raise("OSError", "report_makedirs")
          /\ UNCHANGED dirs
    /\ UNCHANGED <<inputs, train_dataframe, test_dataframe, status, validation_status, drift_vars, drift_report_file, files, result>>

\* write_yaml_file(file_path=drift_report_file_path, content=report)
\* return drift_status
ReportWrite ==
    /\ pc = "report_write"
    /\ \/ /\ drift_report_file' = <<report>>
          /\ drift_returned' = <<drift_status>>
          /\ Step("report_write", IF entry = "initiate_data_validation" THEN "makedirs" ELSE "returned")
       \/ /\ Raise("OSError", "report_write")
          /\ UNCHANGED <<drift_report_file, drift_returned>>
    /\ UNCHANGED <<inputs, train_dataframe, test_dataframe, status, validation_status, threshold, column_index, drift_status, report, dirs, files, result>>

\* ------------------------------------------------------------ persistence
\* dir_path = valid_data_dir if validation_status else invalid_data_dir
dir_path(vstatus) == IF vstatus THEN valid_data_dir ELSE invalid_data_dir

\* the train file always going to the valid path
train_target_valid(vstatus) == valid_train_file_path

\* the target of train_dataframe.to_csv(...)
train_target(vstatus) == IF vstatus THEN valid_train_file_path ELSE invalid_train_file_path

\* the target of test_dataframe.to_csv(...)
test_target(vstatus) == IF vstatus THEN valid_test_file_path ELSE invalid_test_file_path

\* dataframe.to_csv(path, index=False, header=True); the content of a file
\* is the dataframe written, and a failed write leaves no file
to_csv(fs, dataframe, path) == (path :> dataframe) @@ fs

\* os.makedirs(dir_path, exist_ok=True)
Makedirs ==
    /\ pc = "makedirs"
    /\ \/ /\ dirs' = dirs \cup {dir_path(validation_status)}
          /\ Step("makedirs", "write_train")
       \/ /\ Raise("OSError", "makedirs")
          /\ UNCHANGED dirs
    /\ UNCHANGED <<inputs, train_dataframe, test_dataframe, status, validation_status, drift_vars, drift_report_file, files, result>>

WriteTrain ==
    /\ pc = "write_train"
    /\ \/ /\ files' = to_csv(files, train_dataframe, train_target(validation_status))
          /\ Step("write_train", "write_test")
       \/ /\ Raise("OSError", "write_train")
          /\ UNCHANGED files
    /\ UNCHANGED <<inputs, train_dataframe, test_dataframe, status, validation_status, drift_vars, drift_report_file, dirs, result>>

WriteTest ==
    /\ pc = "write_test"
    /\ \/ /\ files' = to_csv(files, test_dataframe, test_target(validation_status))
          /\ Step("write_test", "artifact")
       \/ /\ Raise("OSError", "write_test")
          /\ UNCHANGED files
    /\ UNCHANGED <<inputs, train_dataframe, test_dataframe, status, validation_status, drift_vars, drift_report_file, dirs, result>>

\* data_validation_artifact = DataValidationArtifact(...); return it
DataValidationArtifact(vstatus) == [validation_status |-> vstatus, valid_train_file_path |-> valid_train_file_path, valid_test_file_path |-> valid_test_file_path, invalid_train_file_path |-> invalid_train_file_path, invalid_test_file_path |-> invalid_test_file_path, drift_report_file_path |-> drift_report_file_path]

ReturnArtifact ==
    /\ pc = "artifact"
    /\ result' = <<DataValidationArtifact(validation_status)>>
    /\ Step("artifact", "done")
    /\ UNCHANGED <<inputs, train_dataframe, test_dataframe, status, validation_status, drift_vars, fs_vars>>

Next ==
    \/ ReadTrain
    \/ ReadTest
    \/ CountTrain
    \/ CountTest
    \/ NumTrain
    \/ NumTest
    \/ Gate
    \/ CallDetect
    \/ KsColumn
    \/ ReportMakedirs
    \/ ReportWrite
    \/ Makedirs
    \/ WriteTrain
    \/ WriteTest
    \/ ReturnArtifact

Spec == Init /\ [][Next]_vars

\* ------------------------------------------------------------- properties
Did(step) == \E i \in 1..Len(events) : events[i] = step

Initiate == entry = "initiate_data_validation"

ValidPaths == {valid_train_file_path, valid_test_file_path}

InvalidPaths == {invalid_train_file_path, invalid_test_file_path}

ColumnCountOk(dataframe) == Len(dataframe.columns) = Len(schema.columns)

NumericalPresent(dataframe) == Range(schema.numerical_columns) \subseteq Range(dataframe.columns)

\* C1: a returned artifact's validation_status is true exactly when the four
\* structural checks (column count of train and of test, numerical columns
\* of train and of test) all passed; while the checks run, validation_status
\* is the conjunction of the checks made so far, so a failed check is never
\* reset by a later passing one.
C1_StatusIffAllFourChecks ==
    Initiate =>
        /\ pc = "count_test" => (validation_status <=> ColumnCountOk(train_dataframe))
        /\ pc = "num_train" => (validation_status <=> ColumnCountOk(train_dataframe) /\ ColumnCountOk(test_dataframe))
        /\ pc = "num_test" => (validation_status <=> ColumnCountOk(train_dataframe) /\ ColumnCountOk(test_dataframe) /\ NumericalPresent(train_dataframe))
        /\ pc = "done" => (result[1].validation_status <=> ColumnCountOk(train_dataframe) /\ ColumnCountOk(test_dataframe) /\ NumericalPresent(train_dataframe) /\ NumericalPresent(test_dataframe))

\* a run that returned false because only the first check failed
C1_Witness ==
    /\ Initiate
    /\ pc = "done"
    /\ ~result[1].validation_status
    /\ ~ColumnCountOk(train_dataframe)
    /\ ColumnCountOk(test_dataframe)
    /\ NumericalPresent(train_dataframe)
    /\ NumericalPresent(test_dataframe)

\* C2: the datasets are written only to the valid paths when
\* validation_status is true and only to the invalid paths when it is false,
\* each dataset to its own path, whatever drift detection returned.
C2_RoutingInvariant ==
    Initiate =>
        /\ DOMAIN files \subseteq (IF validation_status THEN ValidPaths ELSE InvalidPaths)
        /\ dirs \cap {valid_data_dir, invalid_data_dir} \subseteq {IF validation_status THEN valid_data_dir ELSE invalid_data_dir}
        /\ pc = "done" =>
               /\ DOMAIN files = (IF result[1].validation_status THEN ValidPaths ELSE InvalidPaths)
               /\ result[1].validation_status => files[valid_train_file_path] = train_dataframe /\ files[valid_test_file_path] = test_dataframe
               /\ ~result[1].validation_status => files[invalid_train_file_path] = train_dataframe /\ files[invalid_test_file_path] = test_dataframe

\* an invalid run that wrote both datasets under the invalid paths
C2_Witness ==
    /\ Initiate
    /\ pc = "done"
    /\ ~result[1].validation_status
    /\ DOMAIN files = InvalidPaths
    /\ valid_data_dir \notin dirs

\* C3: drift detection runs, and a drift report is written, only in a run
\* whose validation_status is true after the four checks; a run whose
\* validation_status is false executes no step of it and writes no report;
\* and after drift detection returned, with drift found or not,
\* validation_status still has the value it had before.
C3_DriftGatedNoFeedback ==
    Initiate =>
        /\ (pc \in {"ks", "report_write"} \/ Did("ks") \/ Did("report_makedirs") \/ Did("report_write")) => validation_status /\ Did("gate")
        /\ drift_report_file # <<>> => validation_status
        /\ drift_returned # <<>> => validation_status
        /\ (Did("gate") /\ ~validation_status) =>
               /\ drift_report_file = <<>>
               /\ drift_returned = <<>>
               /\ dirname(drift_report_file_path) \notin dirs
               /\ ~Did("ks")
        /\ pc = "done" => (result[1].validation_status <=> drift_returned # <<>>)

\* a valid run in which drift was found, and the artifact still says valid
C3_Witness ==
    /\ Initiate
    /\ pc = "done"
    /\ drift_returned = <<TRUE>>
    /\ drift_report_file # <<>>
    /\ result[1].validation_status

ArtifactFields == {"validation_status", "valid_train_file_path", "valid_test_file_path", "invalid_train_file_path", "invalid_test_file_path", "drift_report_file_path"}

\* C4: a run ends either with a complete artifact (six fields) and no
\* exception, or with a NetworkSecurityException and no artifact; every
\* failure of a step ends the run with that exception, and a state from
\* which the run cannot continue is one of these two.
C4_ArtifactOrDomainException ==
    Initiate =>
        /\ pc = "done" =>
               /\ Len(result) = 1
               /\ DOMAIN result[1] = ArtifactFields
               /\ result[1].validation_status \in BOOLEAN
               /\ exception = None
               /\ cause = None
        /\ pc = "raised" =>
               /\ result = <<>>
               /\ exception = "NetworkSecurityException"
               /\ cause # None
        /\ cause # None => pc = "raised"
        /\ exception # None => pc = "raised"
        /\ result # <<>> => pc = "done"
        /\ pc \notin {"done", "raised"} => ENABLED Next

\* the KS computation failed after both datasets were read and checked
C4_Witness ==
    /\ Initiate
    /\ pc = "raised"
    /\ cause = "ValueError"
    /\ exception = "NetworkSecurityException"
    /\ result = <<>>

\* C5: every recorded drift_status equals (p_value < threshold), for every
\* column compared and every threshold.
C5_DriftStatusIsPBelowThreshold ==
    \A column \in DOMAIN report : report[column].drift_status = float_lt(report[column].p_value, threshold)

\* C6: the overall drift flag is the OR of the per-column drift_status
\* values: after every pass of the loop it equals the OR over the columns
\* compared so far (so a later column without drift does not clear it), and
\* the value returned is the OR over the written report, false for a base
\* dataset without columns.
C6_OverallDriftIsOr ==
    /\ drift_status = (\E column \in DOMAIN report : report[column].drift_status)
    /\ drift_returned # <<>> =>
           /\ drift_returned[1] = (\E column \in DOMAIN drift_report_file[1] : drift_report_file[1][column].drift_status)
           /\ train_dataframe.columns = <<>> => drift_returned[1] = FALSE

\* drift returned true although the last column compared had not drifted
C6_Witness ==
    /\ drift_returned = <<TRUE>>
    /\ Len(train_dataframe.columns) >= 2
    /\ drift_report_file[1][train_dataframe.columns[1]].drift_status
    /\ ~drift_report_file[1][train_dataframe.columns[Len(train_dataframe.columns)]].drift_status

\* C7: the keys of a written drift report are exactly the base dataset's
\* columns, each with a p_value and a drift_status; a column of the current
\* dataset alone is not among them.
C7_ReportKeysAreBaseColumns ==
    drift_report_file # <<>> =>
        /\ DOMAIN drift_report_file[1] = Range(train_dataframe.columns)
        /\ \A column \in DOMAIN drift_report_file[1] :
               /\ DOMAIN drift_report_file[1][column] = {"p_value", "drift_status"}
               /\ drift_report_file[1][column].p_value \in PValues
               /\ drift_report_file[1][column].drift_status \in BOOLEAN
        /\ \A column \in Range(test_dataframe.columns) \ Range(train_dataframe.columns) : column \notin DOMAIN drift_report_file[1]

\* a report over two base columns, the current dataset having a third
C7_Witness ==
    /\ drift_report_file # <<>>
    /\ Len(train_dataframe.columns) = 2
    /\ Range(test_dataframe.columns) \ Range(train_dataframe.columns) # {}
    /\ DOMAIN drift_report_file[1] = Range(train_dataframe.columns)

MissingIsDifference(dataframe) ==
    /\ Range(missing_numerical_columns(dataframe)) = Range(schema.numerical_columns) \ Range(dataframe.columns)
    /\ Len(missing_numerical_columns(dataframe)) = Cardinality(Range(schema.numerical_columns) \ Range(dataframe.columns))
    /\ IsSorted(missing_numerical_columns(dataframe))

\* C8: is_numerical_column_exist(D) returns true exactly when every name of
\* schema.numerical_columns is a column of D; for a D lacking one it returns
\* false and does not raise; and the missing list it builds is
\* schema.numerical_columns minus D's columns, in the schema's order. D is
\* the train dataset and then the test dataset of a run, any column list.
C8_NumericalColumnsPresent ==
    (Initiate /\ schema.has_numerical) =>
        /\ pc = "num_test" => (status <=> NumericalPresent(train_dataframe)) /\ MissingIsDifference(train_dataframe)
        /\ pc = "gate" => (status <=> NumericalPresent(test_dataframe)) /\ MissingIsDifference(test_dataframe)
        /\ ~(pc = "raised" /\ events[Len(events)] \in {"num_train", "num_test"})

\* the test dataset has the right number of columns, lacks one of two
\* numerical columns, and the check returned false
C8_Witness ==
    /\ Initiate
    /\ pc = "gate"
    /\ ~status
    /\ ColumnCountOk(test_dataframe)
    /\ Len(schema.numerical_columns) = 2
    /\ Len(missing_numerical_columns(test_dataframe)) = 1

CountOnly(st, dataframe) ==
    /\ st <=> Cardinality(Range(dataframe.columns)) = Cardinality(Range(schema.columns))
    /\ (Len(dataframe.columns) = Len(schema.columns) /\ Range(dataframe.columns) # Range(schema.columns)) => st
    /\ (Len(dataframe.columns) = Len(schema.columns) + 1 \/ Len(dataframe.columns) + 1 = Len(schema.columns)) => ~st

C10_WrittenUnderOriginalBasenames ==
    (Initiate /\ pc = "done") =>
        LET selected == IF result[1].validation_status THEN valid_data_dir ELSE invalid_data_dir IN
        /\ DOMAIN files = {join(selected, basename(trained_file_path)), join(selected, basename(test_file_path))}
        /\ files[join(selected, basename(trained_file_path))] = train_dataframe
        /\ files[join(selected, basename(test_file_path))] = test_dataframe

\* the stage of a step: LOADED 1, STRUCT_CHECKED 2, DRIFT_CHECKED 3,
\* PERSISTED 4, DONE 5
StageOf(step) ==
    CASE step \in {"read_train", "read_test"} -> 1
      [] step \in {"count_train", "count_test", "num_train", "num_test", "gate"} -> 2
      [] step \in {"ks", "report_makedirs", "report_write"} -> 3
      [] step \in {"makedirs", "write_train", "write_test"} -> 4
      [] step = "artifact" -> 5

\* the statements of the method in program order; "ks" is taken once per
\* base column
ProgramOrder == <<"read_train", "read_test", "count_train", "count_test", "num_train", "num_test", "gate", "ks", "report_makedirs", "report_write", "makedirs", "write_train", "write_test", "artifact">>

PositionOf(step) == CHOOSE k \in 1..Len(ProgramOrder) : ProgramOrder[k] = step

Position(step) == CHOOSE i \in 1..Len(events) : events[i] = step

\* C11: the steps of a run follow the program order (stages never go back,
\* no step other than the per-column comparison is taken twice); both
\* datasets are read before any check; a returned run has evaluated all
\* four checks, in the order train count, test count, train numerical, test
\* numerical, whatever their results; in a valid run the drift report is
\* written before either dataset file; both dataset files are written
\* before the artifact is returned; and after a failure no step follows.
C11_StagesInOrder ==
    Initiate =>
        /\ \A i, j \in 1..Len(events) : i < j =>
               /\ StageOf(events[i]) <= StageOf(events[j])
               /\ PositionOf(events[i]) <= PositionOf(events[j])
               /\ events[i] = events[j] => events[i] = "ks"
        /\ Did("count_train") => events[1] = "read_train" /\ events[2] = "read_test" /\ events[3] = "count_train"
        /\ (Did("gate") \/ pc = "done") => Len(events) >= 7 /\ SubSeq(events, 3, 7) = <<"count_train", "count_test", "num_train", "num_test", "gate">>
        /\ (Did("write_train") /\ validation_status) => Did("report_write") /\ Position("report_write") < Position("write_train") /\ drift_report_file # <<>>
        /\ (Did("write_train") /\ pc # "raised") => valid_train_file_path \in DOMAIN files \/ invalid_train_file_path \in DOMAIN files
        /\ pc = "done" =>
               /\ Did("write_train") /\ Did("write_test")
               /\ Position("write_train") < Position("write_test")
               /\ events[Len(events)] = "artifact"
               /\ Cardinality(DOMAIN files) = 2
        /\ pc = "raised" => ~ENABLED Next /\ result = <<>>

\* a returned run whose first check failed and which still made the other
\* three, skipped drift detection and wrote both files
C11_Witness ==
    /\ Initiate
    /\ pc = "done"
    /\ ~ColumnCountOk(train_dataframe)
    /\ ~result[1].validation_status
    /\ events = <<"read_train", "read_test", "count_train", "count_test", "num_train", "num_test", "gate", "makedirs", "write_train", "write_test", "artifact">>

\* C12: when the comparison fails on a column (a base column the current
\* dataset lacks, or the KS computation raising), detect_dataset_drift ends
\* in NetworkSecurityException with no drift report written, and the run of
\* initiate_data_validation ends in that exception with no train or test
\* file written under the valid or the invalid paths and no artifact; so a
\* written report, or a dataset file of a valid run, implies that every
\* base column was found in the current dataset.
C12_ComparisonFailureWritesNothing ==
    /\ (pc = "raised" /\ events[Len(events)] = "ks") =>
           /\ cause \in {"KeyError", "ValueError"}
           /\ exception = "NetworkSecurityException"
           /\ drift_report_file = <<>>
           /\ drift_returned = <<>>
           /\ DOMAIN files = {}
           /\ result = <<>>
    /\ (pc = "ks" /\ column_index <= Len(train_dataframe.columns) /\ train_dataframe.columns[column_index] \notin Range(test_dataframe.columns)) => drift_report_file = <<>> /\ DOMAIN files = {}
    /\ drift_report_file # <<>> => Range(train_dataframe.columns) \subseteq Range(test_dataframe.columns)
    /\ (Initiate /\ DOMAIN files # {} /\ validation_status) => Range(train_dataframe.columns) \subseteq Range(test_dataframe.columns)

\* all four checks passed, the first base column was compared, and the
\* second is not a column of the test dataset
C12_Witness ==
    /\ Initiate
    /\ pc = "raised"
    /\ cause = "KeyError"
    /\ events[Len(events)] = "ks"
    /\ column_index = 2
    /\ validation_status
    /\ ColumnCountOk(train_dataframe) /\ ColumnCountOk(test_dataframe)
    /\ NumericalPresent(train_dataframe) /\ NumericalPresent(test_dataframe)
    /\ DOMAIN files = {}
    /\ drift_report_file = <<>>

====
